---- MODULE Spec2Model ----
(***************************************************************************)
(* Model of the data-migration toolkit of MVLBIM: the queue-driven batch   *)
(* job (BatchProcessor), the BOQ transformation (RIBCandyMigrator), the    *)
(* destination store the batches are applied to, and the reconciliation    *)
(* engine.  Amounts are integers (cents).                                  *)
(***************************************************************************)
EXTENDS Integers, Sequences, FiniteSets, TLC

\* ------------------------------------------------------------------ bounds
MaxRecords == 3      \* longest source stream explored
MaxBatch == 2        \* largest explicit config.batchSize explored
MaxCrashes == 1      \* process crashes per run
MaxRuns == 2         \* calls of migrateBOQData per run

\* ------------------------------------------------------- program constants
QueueAttempts == 3        \* queue.add(..., { attempts: 3 })
DefaultBatchSize == 1000  \* config.batchSize || 1000
Tolerance == 1            \* financial tolerance, $0.01 in cents

\* ------------------------------------------------------------ source data
\* A raw boq_items row.  kind "ok" is importable, "invalid" carries a
\* non-positive quantity, "conflict" violates a destination constraint.
Kinds == {"ok", "invalid", "conflict"}

RawItem(i, k) ==
  [ item_id  |-> i,
    sequence_number |-> i,
    quantity |-> IF k = "invalid" THEN 0 - i ELSE i,
    rate     |-> 100 + 25 * i,
    conflict |-> (k = "conflict") ]

Sources ==
  UNION { { [i \in 1..n |-> RawItem(i, ks[i])] : ks \in [1..n -> Kinds] }
          : n \in 1..MaxRecords }

Min(a, b) == IF a < b THEN a ELSE b

\* ------------------------------------------------------------------- state
VARIABLES
  source,          \* the source stream of the job (stable across retries)
  cfgBatch,        \* config.batchSize (0 = not set)
  jobStatus,       \* persisted status: queued / processing / completed / failed
  attemptsMade,    \* attempts the queue has counted as failed
  pc,              \* position of the worker in processMigrationJob
  offset,          \* local: offset
  processedCount,  \* local: processedCount
  batch,           \* local: the window returned by getDataBatch
  todo,            \* processBatch: validated records not yet submitted
  txn,             \* processBatch: records buffered in the open transaction
  txnBase,         \* the store as it was when the transaction began
  successCount,    \* batchResult.successCount
  errors,          \* batchResult.errors (number of rejected records)
  lastError,       \* the error caught by processMigrationJob
  dest,            \* destination store rows
  progress,        \* persisted progress of updateJobProgress
  report,          \* last reconciliation report
  crashes,         \* crashes so far
  crashedAt,       \* where the last crash hit the worker
  boqPc,           \* position inside migrateBOQData
  boqItems,        \* migrateBOQData: transformedBoq.items
  boqValid,        \* migrateBOQData: validationResult.isValid
  boqErrors,       \* migrateBOQData: validationResult.errors
  boqResult,       \* the MigrationResult last returned
  boqRuns,         \* calls of migrateBOQData so far
  xlHeaders,       \* migrateExcelWorkbook: headerRow.values of the sheet
  xlRows,          \* migrateExcelWorkbook: data rows of the sheet
  xlTemplate,      \* migrateExcelWorkbook: the template of templateType
  xlPc,            \* position inside migrateExcelWorkbook
  xlMappings,      \* analyzeSheet: columnMappings
  xlRecords,       \* extractedData: per record, the fields that got a value
  xlIssues,        \* validatedData.errors
  xlResult,        \* the MigrationResult returned
  xlImported,      \* records handed to importData
  upDest,          \* destination store of the re-submission scenario
  upPolicy,        \* its policy for a changed record: overwrite / reject
  upLast,          \* outcome of the last submission
  poolLimit,       \* worker pool: configured concurrency limit
  poolSize,        \* worker pool: size of the connection-pool semaphore
  permits,         \* worker pool: free permits of the semaphore
  pending,         \* worker pool: jobs waiting in the queue
  wJob,            \* worker pool: per worker, batches left in its job
  wBatches,        \* worker pool: per worker, batches handed to processBatch
  wConn,           \* worker pool: per worker, connections held
  wApplying,       \* worker pool: per worker, batches being applied
  vData,           \* validateMigrationData: data.records
  vPc,             \* position inside validateMigrationData
  vErrors,         \* results.errors
  vWarnings,       \* results.warnings
  vStats,          \* results.statistics
  vIsValid,        \* results.isValid
  resources,       \* financial property test: the generated records
  shuffled,        \* the same records in the shuffled order
  total1,          \* total of resources
  total2,          \* total of shuffled
  finPc            \* position inside the property's body

vars == << source, cfgBatch, jobStatus, attemptsMade, pc, offset,
           processedCount, batch, todo, txn, txnBase, successCount, errors,
           lastError, dest, progress, report, crashes, crashedAt,
           boqPc, boqItems, boqValid, boqErrors, boqResult, boqRuns,
           xlHeaders, xlRows, xlTemplate, xlPc, xlMappings, xlRecords, xlIssues,
           xlResult, xlImported, upDest, upPolicy, upLast,
           poolLimit, poolSize, permits, pending, wJob, wBatches, wConn,
           wApplying, vData, vPc, vErrors, vWarnings, vStats, vIsValid,
           resources, shuffled, total1, total2, finPc >>

locals == << offset, processedCount, batch, todo, txn, successCount, errors >>
boq == << boqPc, boqItems, boqValid, boqErrors, boqResult, boqRuns >>
xl == << xlHeaders, xlRows, xlTemplate, xlPc, xlMappings, xlRecords, xlIssues, xlResult,
        xlImported >>
up == << upDest, upPolicy, upLast >>
pool == << poolLimit, poolSize, permits, pending, wJob, wBatches, wConn,
          wApplying >>
val == << vData, vPc, vErrors, vWarnings, vStats, vIsValid >>
fin == << resources, shuffled, total1, total2, finPc >>
others == << up, pool, val, fin >>
env == << source, cfgBatch, crashes, crashedAt, boq, xl, others >>
job == << cfgBatch, jobStatus, attemptsMade, pc, locals, txnBase, lastError,
         progress, report, crashes, crashedAt >>

\* ------------------------------------------------------------ pure helpers
\* A transformation that takes the key from a generated id, fresh on every
\* run of the job, instead of the source's item_id.
TransformItemGeneratedKey(item) ==
  [ externalId |-> item.item_id + 100 * (attemptsMade + 1),
    sequenceNumber |-> item.sequence_number,
    quantity   |-> item.quantity,
    rate       |-> item.rate,
    conflict   |-> item.conflict ]

\* A transformation that keys every item on its BOQ instead of on itself.
TransformItemSharedKey(item) ==
  [ externalId |-> 1,
    sequenceNumber |-> item.sequence_number,
    quantity   |-> item.quantity,
    rate       |-> item.rate,
    conflict   |-> item.conflict ]

\* A transformation that fills the rate from the wrong source column.
TransformItemWrongRate(item) ==
  [ externalId |-> item.item_id,
    sequenceNumber |-> item.sequence_number,
    quantity   |-> item.quantity,
    rate       |-> item.quantity,
    conflict   |-> item.conflict ]

\* transformBOQStructure, per item: externalId = item.item_id, quantity,
\* rate and sequenceNumber copied.  (The generated id is fresh on every call
\* and is no part of the record's content; it is left out.)
TransformItem(item) ==
  [ externalId |-> item.item_id,
    sequenceNumber |-> item.sequence_number,
    quantity   |-> item.quantity,
    rate       |-> item.rate,
    conflict   |-> item.conflict ]

\* Content fingerprint: the significant fields.
Fingerprint(r) == <<r.quantity, r.rate>>

\* boqTemplate.validationRules: quantity positive_number, rate positive_currency.
ValidRecord(r) == r.quantity > 0 /\ r.rate > 0

\* Destination rows are kept in insertion order.
RowOf(r) ==
  [ externalId |-> r.externalId, sequenceNumber |-> r.sequenceNumber,
    quantity |-> r.quantity, rate |-> r.rate,
    fp |-> Fingerprint(r), rev |-> 1 ]

HasKey(d, x) == \E i \in 1..Len(d) : d[i].externalId = x

KeyIndex(d, x) == CHOOSE i \in 1..Len(d) : d[i].externalId = x

\* A store without a uniqueness constraint: every write adds a row.
UpsertAlwaysInserts(d, r) == Append(d, RowOf(r))

\* Txn.Upsert: keyed on externalId; same fingerprint is a no-op, a different
\* fingerprint replaces the row as a new revision, an unknown key inserts.
Upsert(d, r) ==
  IF HasKey(d, r.externalId)
  THEN LET i == KeyIndex(d, r.externalId) IN
       IF d[i].fp = Fingerprint(r)
       THEN d
       ELSE [d EXCEPT ![i] = [RowOf(r) EXCEPT !.rev = d[i].rev + 1]]
  ELSE Append(d, RowOf(r))

RECURSIVE ApplyAll(_, _)
ApplyAll(d, rs) ==
  IF rs = <<>> THEN d ELSE ApplyAll(Upsert(d, Head(rs)), Tail(rs))

\* getDataBatch(config, offset, batchSize): the window of the source.
Window(src, off, size) ==
  SubSeq(src, off + 1, Min(off + size, Len(src)))

\* config.batchSize || 1000
BatchSize(cfg) == IF cfg = 0 THEN DefaultBatchSize ELSE cfg

\* An off-by-one advance of the window: one record is stepped over.
NextOffsetSkipping(off, size) == off + size + 1

\* A loop that forgets to advance the window.
NextOffsetStuck(off, size) == off

\* offset += batchSize
NextOffset(off, size) == off + size

\* A loop that gives the job up as soon as a batch reports a rejected record.
BatchOutcomeAbortOnErrors(errs) == IF errs > 0 THEN "permanent" ELSE "ok"

\* The loop body after processBatch returns: batchResult.errors is only
\* reported through updateJobProgress, it never throws.
BatchOutcome(errs) == "ok"

\* Counting the whole window as processed instead of its successes.
ProcessedAfterWindow(count, success, windowLen) == count + windowLen

\* processedCount += batchResult.successCount
ProcessedAfter(count, success, windowLen) == count + success

\* A write that goes straight through to the store, outside the transaction.
TxnWriteThrough(d, r) == Upsert(d, r)

\* A write inside an open destination transaction is buffered: the store
\* itself is untouched until Commit.
TxnWrite(d, r) == d

\* Txn.Commit: every buffered record is applied.
CommitTxn(d, t) == ApplyAll(d, t)

\* calculateFinancialTotals: sum of quantity x rate.
RECURSIVE FinancialTotal(_)
FinancialTotal(rs) ==
  IF rs = <<>> THEN 0
  ELSE Head(rs).quantity * Head(rs).rate + FinancialTotal(Tail(rs))

\* reconcileMigratedData(sourceId, targetId)
ReconcileReport(src, d) ==
  [ sourceRecordCount |-> Len(src),
    targetRecordCount |-> Len(d),
    sourceTotal       |-> FinancialTotal(src),
    targetTotal       |-> FinancialTotal(d),
    variance          |-> FinancialTotal(src) - FinancialTotal(d) ]

Abs(x) == IF x < 0 THEN 0 - x ELSE x

\* The report's verdict against the tolerance.
ReportPasses(rep) ==
  /\ rep.sourceRecordCount - rep.targetRecordCount = 0
  /\ Abs(rep.variance) <= Tolerance

NoReport == [ sourceRecordCount |-> 0 - 1 ]

\* ------------------------------------------------------------- operations
\* The worker pool is not in use.
IdlePool ==
  /\ poolLimit = 1
  /\ poolSize = 1
  /\ permits = 1
  /\ pending = 0
  /\ wJob = <<>>
  /\ wBatches = <<>>
  /\ wConn = <<>>
  /\ wApplying = <<>>

\* The validation engine is not in use.
IdleVal ==
  /\ vData = <<>>
  /\ vPc = "idle"
  /\ vErrors = <<>>
  /\ vWarnings = <<>>
  /\ vStats = [totalRecords |-> 0, duplicateCount |-> 0]
  /\ vIsValid = TRUE

\* The financial property test is not running.
IdleFin ==
  /\ resources = <<>>
  /\ shuffled = <<>>
  /\ total1 = 0
  /\ total2 = 0
  /\ finPc = "idle"

IdleRest == IdlePool /\ IdleVal /\ IdleFin

InitJob ==
  /\ jobStatus = "queued"
  /\ attemptsMade = 0
  /\ pc = "waiting"
  /\ offset = 0
  /\ processedCount = 0
  /\ batch = <<>>
  /\ todo = <<>>
  /\ txn = <<>>
  /\ txnBase = <<>>
  /\ successCount = 0
  /\ errors = 0
  /\ lastError = "none"
  /\ dest = <<>>
  /\ progress = [processed |-> 0, errors |-> 0]
  /\ report = NoReport
  /\ crashes = 0
  /\ crashedAt = "none"
  /\ boqPc = "idle"
  /\ boqItems = <<>>
  /\ boqValid = FALSE
  /\ boqErrors = <<>>
  /\ boqResult = [status |-> "none"]
  /\ boqRuns = 0
  /\ xlPc = "idle"
  /\ xlMappings = <<>>
  /\ xlRecords = <<>>
  /\ xlIssues = {}
  /\ xlResult = [status |-> "none"]
  /\ xlImported = 0
  /\ upDest = <<>>
  /\ upLast = [outcome |-> "none"]

\* A job was queued for some source and batch size; no workbook is loaded.
Init ==
  /\ source \in Sources
  /\ cfgBatch \in 0..MaxBatch
  /\ xlHeaders = <<>>
  /\ xlRows = 0
  /\ xlTemplate = "valid"
  /\ upPolicy = "overwrite"
  /\ InitJob
  /\ IdleRest

\* A worker that starts on the batches without recording the new status.
StartStatusKept(prev) == prev

\* await this.updateJobStatus(jobId, 'processing'), before the first batch.
StartStatus(prev) == "processing"

\* The queue hands the job to processMigrationJob: status 'processing',
\* offset = 0, processedCount = 0.
StartJob ==
  /\ pc = "waiting"
  /\ jobStatus' = StartStatus(jobStatus)
  /\ offset' = 0
  /\ processedCount' = 0
  /\ batch' = <<>>
  /\ lastError' = "none"
  /\ pc' = "fetch"
  /\ UNCHANGED << attemptsMade, todo, txn, txnBase, successCount, errors,
                  dest, progress, report, env >>

\* const batch = await this.getDataBatch(config, offset, batchSize);
\* if (batch.length === 0) break;
GetDataBatch ==
  /\ pc = "fetch"
  /\ batch' = Window(source, offset, BatchSize(cfgBatch))
  /\ pc' = IF batch' = <<>> THEN "finish" ELSE "process"
  /\ UNCHANGED << jobStatus, attemptsMade, offset, processedCount, todo, txn,
                  txnBase, successCount, errors, lastError, dest, progress,
                  report, env >>

\* processBatch, first step: the window is transformed, records with an
\* error-severity issue are set aside, a transaction is opened for the rest.
Canonical(b) == [i \in 1..Len(b) |-> TransformItem(b[i])]

RECURSIVE SelectValid(_)
SelectValid(rs) ==
  IF rs = <<>> THEN <<>>
  ELSE IF ValidRecord(Head(rs)) THEN <<Head(rs)>> \o SelectValid(Tail(rs))
       ELSE SelectValid(Tail(rs))

BeginBatch ==
  /\ pc = "process"
  /\ LET canon == Canonical(batch)
         valid == SelectValid(canon)
     IN /\ todo' = valid
        /\ errors' = Len(canon) - Len(valid)
        /\ pc' = IF valid = <<>> THEN "progress" ELSE "upsert"
  /\ txn' = <<>>
  /\ txnBase' = dest
  /\ successCount' = 0
  /\ UNCHANGED << jobStatus, attemptsMade, offset, processedCount, batch,
                  lastError, dest, progress, report, env >>

\* Txn.Upsert of the next record.  A constraint violation is a permanent
\* error: the transaction is rolled back and the records of the batch are
\* re-attempted one at a time.
UpsertRecord ==
  /\ pc = "upsert"
  /\ LET r == Head(todo) IN
     IF r.conflict
     THEN /\ todo' = txn \o todo
          /\ txn' = <<>>
          /\ dest' = txnBase
          /\ pc' = "isolate"
     ELSE /\ txn' = Append(txn, r)
          /\ todo' = Tail(todo)
          /\ dest' = TxnWrite(dest, r)
          /\ pc' = IF Tail(todo) = <<>> THEN "commit" ELSE "upsert"
  /\ UNCHANGED << jobStatus, attemptsMade, offset, processedCount, batch,
                  txnBase, successCount, errors, lastError, progress, report, env >>

\* Txn.Commit succeeds.
CommitBatch ==
  /\ pc = "commit"
  /\ dest' = CommitTxn(dest, txn)
  /\ successCount' = Len(txn)
  /\ txn' = <<>>
  /\ pc' = "progress"
  /\ UNCHANGED << jobStatus, attemptsMade, offset, processedCount, batch,
                  todo, txnBase, errors, lastError, progress, report, env >>

\* The destination is out (timeout, deadlock): the transaction is rolled
\* back and processBatch throws a TransientDestinationError.
CommitFails ==
  /\ pc \in {"commit", "isolate"}
  /\ txn' = <<>>
  /\ dest' = IF pc = "commit" THEN txnBase ELSE dest
  /\ lastError' = "transient"
  /\ pc' = "catch"
  /\ UNCHANGED << jobStatus, attemptsMade, offset, processedCount, batch,
                  todo, txnBase, successCount, errors, progress, report, env >>

\* Re-attempt at batch size 1: one record, one transaction.
IsolateRecord ==
  /\ pc = "isolate"
  /\ LET r == Head(todo)
         errs == IF r.conflict THEN errors + 1 ELSE errors
     IN /\ dest' = IF r.conflict THEN dest ELSE CommitTxn(dest, <<r>>)
        /\ successCount' = IF r.conflict THEN successCount ELSE successCount + 1
        /\ errors' = errs
        /\ todo' = Tail(todo)
        /\ txnBase' = dest'
        /\ pc' = IF Tail(todo) # <<>> THEN "isolate" ELSE "progress"
  /\ UNCHANGED << jobStatus, attemptsMade, offset, processedCount, batch,
                  txn, lastError, progress, report, env >>

\* processBatch has returned: processedCount += batchResult.successCount;
\* updateJobProgress(...); offset += batchSize
UpdateProgress ==
  /\ pc = "progress"
  /\ IF BatchOutcome(errors) = "ok"
     THEN LET count == ProcessedAfter(processedCount, successCount, Len(batch))
          IN /\ processedCount' = count
             /\ progress' = [processed |-> count, errors |-> errors]
             /\ offset' = NextOffset(offset, BatchSize(cfgBatch))
             /\ pc' = "fetch"
             /\ UNCHANGED lastError
     ELSE /\ lastError' = BatchOutcome(errors)
          /\ pc' = "catch"
          /\ UNCHANGED << processedCount, progress, offset >>
  /\ UNCHANGED << jobStatus, attemptsMade, batch, todo, txn, txnBase,
                  successCount, errors, dest, report, env >>

\* updateJobStatus(jobId, 'completed', { totalProcessed })
CompleteJob ==
  /\ pc = "finish"
  /\ jobStatus' = "completed"
  /\ pc' = "done"
  /\ UNCHANGED << attemptsMade, locals, txnBase, lastError, dest, progress,
                  report, env >>

\* catch (error): updateJobStatus(jobId, 'failed'); throw error.  The queue
\* counts the attempt and runs the job again while attempts remain.
CatchError ==
  /\ pc = "catch"
  /\ jobStatus' = "failed"
  /\ attemptsMade' = attemptsMade + 1
  /\ pc' = IF attemptsMade + 1 < QueueAttempts THEN "waiting" ELSE "done"
  /\ UNCHANGED << locals, txnBase, lastError, dest, progress, report, env >>

\* The worker process dies: locals and any open transaction are lost, the
\* persisted status stays as it was, the queue runs the stalled job again.
Running == {"fetch", "process", "upsert", "commit", "isolate", "progress", "finish"}

Crash ==
  /\ pc \in Running
  /\ crashes < MaxCrashes
  /\ crashes' = crashes + 1
  /\ crashedAt' = pc
  /\ offset' = 0
  /\ processedCount' = 0
  /\ batch' = <<>>
  /\ todo' = <<>>
  /\ txn' = <<>>
  /\ successCount' = 0
  /\ errors' = 0
  /\ dest' = IF pc \in {"upsert", "commit"} THEN txnBase ELSE dest
  /\ pc' = "waiting"
  /\ UNCHANGED << jobStatus, attemptsMade, txnBase, lastError, progress,
                  report, source, cfgBatch, boq, xl, others >>

\* DataReconciliationEngine.reconcileMigratedData, run once the job is over.
Reconcile ==
  /\ pc = "done"
  /\ report = NoReport
  /\ report' = ReconcileReport(source, dest)
  /\ UNCHANGED << jobStatus, attemptsMade, pc, locals, txnBase, lastError,
                  dest, progress, env >>

Next ==
  \/ StartJob
  \/ GetDataBatch
  \/ BeginBatch
  \/ UpsertRecord
  \/ CommitBatch
  \/ CommitFails
  \/ IsolateRecord
  \/ UpdateProgress
  \/ CompleteJob
  \/ CatchError
  \/ Crash
  \/ Reconcile

Spec == Init /\ [][Next]_vars

\* processMigrationJob on a worker that stays up: the statements of the
\* function follow one another, each await resolves or rejects.
NextExecution ==
  \/ StartJob
  \/ GetDataBatch
  \/ BeginBatch
  \/ UpsertRecord
  \/ CommitBatch
  \/ CommitFails
  \/ IsolateRecord
  \/ UpdateProgress
  \/ CompleteJob
  \/ CatchError

SpecExecution == Init /\ [][NextExecution]_vars /\ WF_vars(NextExecution)

\* ------------------------------------------- RIBCandyMigrator.migrateBOQData
\* validateBOQData: the BOQ is valid when no item has an error.
ValidateBOQ(items) == \A k \in 1..Len(items) : ValidRecord(items[k])

\* The errors validateBOQData reports for the item at 0-based position idx:
\* one per broken rule, field 'items[idx].quantity' / 'items[idx].rate'.
ItemErrors(item, idx) ==
  (IF item.quantity > 0 THEN <<>>
   ELSE << [field |-> <<"items", idx, "quantity">>,
            rule |-> "positive_number",
            message |-> "Quantity must be positive"] >>)
  \o
  (IF item.rate > 0 THEN <<>>
   ELSE << [field |-> <<"items", idx, "rate">>,
            rule |-> "positive_currency",
            message |-> "Rate must be positive"] >>)

RECURSIVE BOQErrorsFrom(_, _)
BOQErrorsFrom(items, k) ==
  IF k > Len(items) THEN <<>>
  ELSE ItemErrors(items[k], k - 1) \o BOQErrorsFrom(items, k + 1)

BOQErrors(items) == BOQErrorsFrom(items, 1)

RECURSIVE SelectAccepted(_)
SelectAccepted(rs) ==
  IF rs = <<>> THEN <<>>
  ELSE IF Head(rs).conflict THEN SelectAccepted(Tail(rs))
       ELSE <<Head(rs)>> \o SelectAccepted(Tail(rs))

\* importBOQ: the items go to the destination as one batch; items the
\* destination rejects for good are isolated and left out.
ImportBOQ(d, items) == CommitTxn(d, SelectAccepted(items))

\* migrateBOQData(projectId) is called; extractBOQFromRIBCandy returns.
ExtractBOQ ==
  /\ boqPc \in {"idle", "returned"}
  /\ boqRuns < MaxRuns
  /\ boqRuns' = boqRuns + 1
  /\ boqItems' = <<>>
  /\ boqValid' = FALSE
  /\ boqErrors' = <<>>
  /\ boqPc' = "extracted"
  /\ UNCHANGED << source, dest, job, xl, others, boqResult >>

\* const transformedBoq = await this.transformBOQStructure(sourceBoq);
TransformBOQ ==
  /\ boqPc = "extracted"
  /\ boqItems' = Canonical(source)
  /\ boqPc' = "transformed"
  /\ UNCHANGED << source, dest, job, xl, others, boqValid, boqErrors,
                  boqResult, boqRuns >>

\* const validationResult = await this.validateBOQData(transformedBoq);
ValidateBOQData ==
  /\ boqPc = "transformed"
  /\ boqValid' = ValidateBOQ(boqItems)
  /\ boqErrors' = BOQErrors(boqItems)
  /\ boqPc' = "validated"
  /\ UNCHANGED << source, dest, job, xl, others, boqItems, boqResult, boqRuns >>

\* An import that does not look at the validation result.
ImportAllowedAlways(valid) == TRUE

\* if (!validationResult.isValid) throw ...: the import is reached only
\* with isValid true.
ImportAllowed(valid) == valid

\* if (!validationResult.isValid) throw new MigrationError(...), caught:
\* return { status: 'error', error: error.message }
RejectBOQ ==
  /\ boqPc = "validated"
  /\ ~ImportAllowed(boqValid)
  /\ boqResult' = [status |-> "error", error |-> "BOQ validation failed"]
  /\ boqPc' = "returned"
  /\ UNCHANGED << source, dest, job, xl, others, boqItems, boqValid,
                  boqErrors, boqRuns >>

\* The validation passed: importBOQ(transformedBoq) is called.
StartImportBOQ ==
  /\ boqPc = "validated"
  /\ ImportAllowed(boqValid)
  /\ boqPc' = "importing"
  /\ UNCHANGED << source, dest, job, xl, others, boqItems, boqValid,
                  boqErrors, boqResult, boqRuns >>

\* const importResult = await this.importBOQ(transformedBoq);
\* return { status: 'success', recordsMigrated: importResult.itemCount }
ImportBOQData ==
  /\ boqPc = "importing"
  /\ dest' = ImportBOQ(dest, boqItems)
  /\ boqResult' = [status |-> "success",
                   recordsMigrated |-> Len(SelectAccepted(boqItems))]
  /\ boqPc' = "returned"
  /\ UNCHANGED << source, job, xl, others, boqItems, boqValid,
                  boqErrors, boqRuns >>

\* importBOQ throws (the destination is out): caught, status 'error'.
ImportBOQFails ==
  /\ boqPc = "importing"
  /\ boqResult' = [status |-> "error", error |-> "TransientDestinationError"]
  /\ boqPc' = "returned"
  /\ UNCHANGED << source, dest, job, xl, others, boqItems, boqValid,
                  boqErrors, boqRuns >>

NextBOQ ==
  \/ ExtractBOQ
  \/ TransformBOQ
  \/ ValidateBOQData
  \/ RejectBOQ
  \/ StartImportBOQ
  \/ ImportBOQData
  \/ ImportBOQFails

SpecBOQ == Init /\ [][NextBOQ]_vars

\* ----------------------------------- ExcelMigrationEngine.migrateExcelWorkbook
\* Headers and aliases are sequences of characters.
MaxRows == 2

\* Minimum confidence of an accepted match, in hundredths (default 0.6).
MinConfidence == 60

Uppers == <<"A", "B", "C", "D", "E", "F", "G", "H", "I", "J", "K", "L", "M",
           "N", "O", "P", "Q", "R", "S", "T", "U", "V", "W", "X", "Y", "Z">>
Lowers == <<"a", "b", "c", "d", "e", "f", "g", "h", "i", "j", "k", "l", "m",
           "n", "o", "p", "q", "r", "s", "t", "u", "v", "w", "x", "y", "z">>

LowerChar(c) ==
  IF \E k \in 1..Len(Uppers) : Uppers[k] = c
  THEN Lowers[CHOOSE k \in 1..Len(Uppers) : Uppers[k] = c]
  ELSE c

ToLower(h) == [k \in 1..Len(h) |-> LowerChar(h[k])]

RECURSIVE TrimLeft(_)
TrimLeft(h) ==
  IF h # <<>> /\ Head(h) = " " THEN TrimLeft(Tail(h)) ELSE h

RECURSIVE TrimRight(_)
TrimRight(h) ==
  IF h # <<>> /\ h[Len(h)] = " " THEN TrimRight(SubSeq(h, 1, Len(h) - 1)) ELSE h

\* Header normalisation: surrounding blanks dropped, case folded.
Normalize(h) == ToLower(TrimRight(TrimLeft(h)))

Max(a, b) == IF a >= b THEN a ELSE b

\* One row of the edit-distance table: row is the part built so far, for
\* the prefixes of a of length 0..Len(row)-1 against one more character ch.
RECURSIVE LevRow(_, _, _, _)
LevRow(prev, a, ch, row) ==
  IF Len(row) = Len(a) + 1 THEN row
  ELSE LET k == Len(row)
           subst == prev[k] + (IF a[k] = ch THEN 0 ELSE 1)
           cell == Min(Min(prev[k + 1] + 1, row[k] + 1), subst)
       IN LevRow(prev, a, ch, Append(row, cell))

RECURSIVE LevRows(_, _, _)
LevRows(prev, a, b) ==
  IF b = <<>> THEN prev
  ELSE LevRows(LevRow(prev, a, Head(b), << prev[1] + 1 >>), a, Tail(b))

Levenshtein(a, b) == LevRows([k \in 1..Len(a) + 1 |-> k - 1], a, b)[Len(a) + 1]

\* Normalised string similarity in hundredths: 100 only for equal strings.
Similarity(a, b) ==
  IF a = b THEN 100
  ELSE (100 * (Max(Len(a), Len(b)) - Levenshtein(a, b))) \div Max(Len(a), Len(b))

\* const boqTemplate: ExcelTemplate = { fields: [...] }
BoqTemplate == <<
  [ name |-> "item_code",
    chars |-> <<"i", "t", "e", "m", "_", "c", "o", "d", "e">>,
    aliases |-> << <<"c", "o", "d", "e">>,
                 <<"i", "t", "e", "m", " ", "n", "o">>,
                 <<"i", "t", "e", "m", " ", "n", "u", "m", "b", "e", "r">> >>,
    required |-> TRUE ],
  [ name |-> "description",
    chars |-> <<"d", "e", "s", "c", "r", "i", "p", "t", "i", "o", "n">>,
    aliases |-> << <<"d", "e", "s", "c">>,
                 <<"i", "t", "e", "m", " ", "d", "e", "s", "c", "r", "i", "p", "t", "i", "o", "n">> >>,
    required |-> TRUE ],
  [ name |-> "unit",
    chars |-> <<"u", "n", "i", "t">>,
    aliases |-> << <<"u", "o", "m">>,
                 <<"u", "n", "i", "t", " ", "o", "f", " ", "m", "e", "a", "s", "u", "r", "e">> >>,
    required |-> TRUE ],
  [ name |-> "quantity",
    chars |-> <<"q", "u", "a", "n", "t", "i", "t", "y">>,
    aliases |-> << <<"q", "t", "y">>,
                 <<"a", "m", "o", "u", "n", "t">> >>,
    required |-> TRUE ],
  [ name |-> "rate",
    chars |-> <<"r", "a", "t", "e">>,
    aliases |-> << <<"u", "n", "i", "t", " ", "r", "a", "t", "e">>,
                 <<"p", "r", "i", "c", "e">> >>,
    required |-> TRUE ],
  [ name |-> "amount",
    chars |-> <<"a", "m", "o", "u", "n", "t">>,
    aliases |-> << <<"t", "o", "t", "a", "l">>,
                 <<"t", "o", "t", "a", "l", " ", "a", "m", "o", "u", "n", "t">> >>,
    required |-> FALSE ] >>

\* Headers a sheet may carry.
HeaderPool == <<
  <<"Q", "T", "Y", " ">>,
  <<"Q", "u", "a", "l", "i", "t", "y">>,
  <<"C", "o", "d", "e">>,
  <<"D", "e", "s", "c">>,
  <<"U", "O", "M">>,
  <<"P", "r", "i", "s", "e">>,
  <<"U", "n", "i", "t", " ", "R", "a", "t", "e">>,
  <<"A", "m", "o", "u", "n", "t">> >>

RECURSIVE RowFrom(_, _)
RowFrom(k, S) ==
  IF k > Len(HeaderPool) THEN <<>>
  ELSE (IF k \in S THEN << HeaderPool[k] >> ELSE <<>>) \o RowFrom(k + 1, S)

\* The header rows: every non-empty choice of headers of the pool.
HeaderRows == { RowFrom(1, S) : S \in (SUBSET (1..Len(HeaderPool))) \ {{}} }

\* The header, normalised, is the name or an alias of the field.
ExactMatch(h, field) ==
  \/ Normalize(h) = field.chars
  \/ \E a \in 1..Len(field.aliases) : Normalize(h) = field.aliases[a]

\* Largest element of a non-empty sequence of numbers.
RECURSIVE SeqMax(_)
SeqMax(q) == IF Len(q) = 1 THEN q[1] ELSE Max(q[1], SeqMax(Tail(q)))

\* Best similarity of the header to an alias of the field.
AliasScore(h, field) ==
  SeqMax([a \in 1..Len(field.aliases) |->
            Similarity(Normalize(h), field.aliases[a])])

BestScore(h, fields) ==
  SeqMax([k \in 1..Len(fields) |-> AliasScore(h, fields[k])])

\* Of a non-empty set of field positions, the first in declared order.
First(S) == CHOOSE k \in S : \A j \in S : k <= j

\* findBestMatch found nothing: analyzeSheet reads templateField?.name as
\* undefined and the confidence as 0.
NoMatch == [ name |-> "undefined", confidence |-> 0 ]

\* A matcher that takes the best candidate whatever its confidence.
FindBestMatchNoThreshold(h, fields) ==
  LET exact == {k \in 1..Len(fields) : ExactMatch(h, fields[k])}
      best == BestScore(h, fields)
      near == {k \in 1..Len(fields) : AliasScore(h, fields[k]) = best}
  IN IF exact # {}
     THEN [ name |-> fields[First(exact)].name, confidence |-> 100 ]
     ELSE [ name |-> fields[First(near)].name, confidence |-> best ]

\* findBestMatch(header, template.fields): an exact match has confidence 1.0
\* and goes first; otherwise the most similar alias, accepted from the
\* minimum confidence on; ties go to the first field in declared order.
FindBestMatch(h, fields) ==
  LET exact == {k \in 1..Len(fields) : ExactMatch(h, fields[k])}
      best == BestScore(h, fields)
      near == {k \in 1..Len(fields) : AliasScore(h, fields[k]) = best}
  IN IF exact # {}
     THEN [ name |-> fields[First(exact)].name, confidence |-> 100 ]
     ELSE IF best >= MinConfidence
          THEN [ name |-> fields[First(near)].name, confidence |-> best ]
          ELSE NoMatch

\* analyzeSheet, per header: { excelColumn: index, excelHeader: header,
\* templateField: templateField?.name, confidence: ...?.confidence || 0 }
ColumnMapping(header, index) ==
  LET templateField == FindBestMatch(header, BoqTemplate)
  IN [ excelColumn |-> index,
       excelHeader |-> header,
       templateField |-> templateField.name,
       confidence |-> templateField.confidence ]

ColumnMappings(headers) ==
  [k \in 1..Len(headers) |-> ColumnMapping(headers[k], k - 1)]

\* extractDataFromExcel: a record has a value for each field some column of
\* the sheet is mapped to.
MappedFields(mappings) ==
  {mappings[c].templateField : c \in 1..Len(mappings)} \ {"undefined"}

RequiredFields ==
  {BoqTemplate[k].name : k \in {j \in 1..Len(BoqTemplate) : BoqTemplate[j].required}}

\* validateExtractedData: a required field without a value is an
\* error-severity issue of the record.
MissingFieldIssues(records) ==
  { i \in { [ record |-> r, field |-> f, severity |-> "error" ] :
              r \in 1..Len(records), f \in RequiredFields } :
      i.field \notin records[i.record] }

\* An engine that imports whatever the validation says.
ExcelProceedsAlways(issues) == TRUE

\* if (!validatedData.isValid) return { status: 'error', ... }
ExcelProceeds(issues) == issues = {}

\* A workbook with one sheet was loaded.
InitExcel ==
  /\ source = << RawItem(1, "ok") >>
  /\ cfgBatch = 0
  /\ xlHeaders \in HeaderRows
  /\ xlRows \in 1..MaxRows
  /\ xlTemplate \in {"valid", "missing", "invalid"}
  /\ upPolicy = "overwrite"
  /\ InitJob
  /\ IdleRest

\* A template lookup that hands back whatever it finds.
TemplateStepUnchecked(t) == "ready"

\* getTemplate(templateType): a missing or invalid template is a
\* FatalConfigurationError; it is thrown to the caller.
TemplateStep(t) == IF t = "valid" THEN "ready" ELSE "thrown"

\* const template = await this.getTemplate(templateType);
GetTemplate ==
  /\ xlPc = "idle"
  /\ xlPc' = TemplateStep(xlTemplate)
  /\ xlResult' = IF TemplateStep(xlTemplate) = "thrown"
                 THEN [ status |-> "thrown",
                        error |-> "FatalConfigurationError" ]
                 ELSE xlResult
  /\ UNCHANGED << source, dest, job, boq, others, xlHeaders, xlRows,
                  xlTemplate, xlMappings, xlRecords, xlIssues, xlImported >>

\* const dataMapping = await this.detectDataStructure(workbook, template);
DetectDataStructure ==
  /\ xlPc = "ready"
  /\ xlMappings' = ColumnMappings(xlHeaders)
  /\ xlPc' = "mapped"
  /\ UNCHANGED << source, dest, job, boq, others, xlHeaders, xlRows,
                  xlTemplate, xlRecords,
                  xlIssues, xlResult, xlImported >>

\* const extractedData = await this.extractDataFromExcel(workbook, dataMapping);
ExtractDataFromExcel ==
  /\ xlPc = "mapped"
  /\ xlRecords' = [r \in 1..xlRows |-> MappedFields(xlMappings)]
  /\ xlPc' = "extracted"
  /\ UNCHANGED << source, dest, job, boq, others, xlHeaders, xlRows,
                  xlTemplate, xlMappings,
                  xlIssues, xlResult, xlImported >>

\* const validatedData = await this.validateExtractedData(extractedData, template);
ValidateExtractedData ==
  /\ xlPc = "extracted"
  /\ xlIssues' = MissingFieldIssues(xlRecords)
  /\ xlPc' = "validated"
  /\ UNCHANGED << source, dest, job, boq, others, xlHeaders, xlRows,
                  xlTemplate, xlMappings,
                  xlRecords, xlResult, xlImported >>

\* return { status: 'error', errors: validatedData.errors, ... }
ExcelReject ==
  /\ xlPc = "validated"
  /\ ~ExcelProceeds(xlIssues)
  /\ xlResult' = [ status |-> "error", errors |-> xlIssues ]
  /\ xlPc' = "returned"
  /\ UNCHANGED << source, dest, job, boq, others, xlHeaders, xlRows,
                  xlTemplate, xlMappings,
                  xlRecords, xlIssues, xlImported >>

\* const importResult = await this.importData(extractedData, templateType);
\* return { status: 'success', recordsImported: importResult.count, ... }
ExcelImport ==
  /\ xlPc = "validated"
  /\ ExcelProceeds(xlIssues)
  /\ xlImported' = Len(xlRecords)
  /\ xlResult' = [ status |-> "success", recordsImported |-> Len(xlRecords) ]
  /\ xlPc' = "returned"
  /\ UNCHANGED << source, dest, job, boq, others, xlHeaders, xlRows,
                  xlTemplate, xlMappings,
                  xlRecords, xlIssues >>

NextExcel ==
  \/ GetTemplate
  \/ DetectDataStructure
  \/ ExtractDataFromExcel
  \/ ValidateExtractedData
  \/ ExcelReject
  \/ ExcelImport

SpecExcel == InitExcel /\ [][NextExcel]_vars

\* ------------------------------------------ re-submission to the destination
MaxKeys == 2
MaxQty == 2
MaxRevs == 2

\* Canonical records that may be submitted: a key and a content.
SubmittedRecords ==
  { [ externalId |-> k, sequenceNumber |-> k, quantity |-> q, rate |-> 100,
      conflict |-> FALSE ] : k \in 1..MaxKeys, q \in 1..MaxQty }

\* The record's key is stored with another content.
ChangedContent(d, r) ==
  /\ HasKey(d, r.externalId)
  /\ d[KeyIndex(d, r.externalId)].fp # Fingerprint(r)

\* The destination write under the configured policy: 'reject' refuses a
\* record whose key is stored with another content, 'overwrite' upserts.
UpsertUnderPolicy(policy, d, r) ==
  IF policy = "reject" /\ ChangedContent(d, r) THEN d ELSE Upsert(d, r)

SubmitOutcome(policy, d, r) ==
  IF ~HasKey(d, r.externalId) THEN "inserted"
  ELSE IF ~ChangedContent(d, r) THEN "noop"
  ELSE IF policy = "reject" THEN "rejected" ELSE "updated"

InitResubmit ==
  /\ source = << RawItem(1, "ok") >>
  /\ cfgBatch = 0
  /\ xlHeaders = <<>>
  /\ xlRows = 0
  /\ xlTemplate = "valid"
  /\ upPolicy \in {"overwrite", "reject"}
  /\ InitJob
  /\ IdleRest

\* One record is submitted to the destination and committed.
Submit ==
  \E r \in SubmittedRecords :
    /\ (ChangedContent(upDest, r) /\ upPolicy = "overwrite")
          => upDest[KeyIndex(upDest, r.externalId)].rev < MaxRevs
    /\ upDest' = UpsertUnderPolicy(upPolicy, upDest, r)
    /\ upLast' = [ outcome |-> SubmitOutcome(upPolicy, upDest, r),
                   record |-> r ]
    /\ UNCHANGED << source, dest, job, boq, xl, upPolicy, pool, val, fin >>

NextResubmit == Submit

SpecResubmit == InitResubmit /\ [][NextResubmit]_vars

\* ------------------------------------------------ worker pool of the importer
MaxWorkers == 2
MaxPool == 2
MaxJobLen == 2

Workers == 1..MaxWorkers

RECURSIVE SumTo(_, _)
SumTo(f, n) == IF n = 0 THEN 0 ELSE f[n] + SumTo(f, n - 1)

\* Total of a per-worker count.
Total(f) == SumTo(f, MaxWorkers)

\* The worker runs a job: it has batches left or one in processBatch.
Busy(w) == wJob[w] > 0 \/ wBatches[w] > 0

\* A worker that hands the next batch over without awaiting the last one.
CanTakeNoAwait(n) == TRUE

\* const batchResult = await this.processBatch(batch, config): the next
\* batch is fetched only after processBatch has returned.
CanTake(n) == n = 0

\* The semaphore of the connection pool: acquire needs a free permit.
CanAcquire(free) == free > 0

InitPool ==
  /\ source = << RawItem(1, "ok") >>
  /\ cfgBatch = 0
  /\ xlHeaders = <<>>
  /\ xlRows = 0
  /\ xlTemplate = "valid"
  /\ upPolicy = "overwrite"
  /\ InitJob
  /\ IdleVal
  /\ IdleFin
  /\ poolLimit \in 1..MaxWorkers
  /\ poolSize \in 1..MaxPool
  /\ permits = poolSize
  /\ pending = MaxWorkers + 1
  /\ wJob = [w \in Workers |-> 0]
  /\ wBatches = [w \in Workers |-> 0]
  /\ wConn = [w \in Workers |-> 0]
  /\ wApplying = [w \in Workers |-> 0]

\* The queue hands a waiting job to a free worker, up to the limit.
WorkerTakesJob(w) ==
  /\ ~Busy(w)
  /\ pending > 0
  /\ Cardinality({v \in Workers : Busy(v)}) < poolLimit
  /\ pending' = pending - 1
  /\ wJob' = [wJob EXCEPT ![w] = MaxJobLen]
  /\ UNCHANGED << source, dest, job, boq, xl, up, val, fin, poolLimit, poolSize,
                  permits, wBatches, wConn, wApplying >>

\* processMigrationJob: the next batch goes to processBatch.
WorkerCallsProcessBatch(w) ==
  /\ wJob[w] > 0
  /\ CanTake(wBatches[w])
  /\ wJob' = [wJob EXCEPT ![w] = @ - 1]
  /\ wBatches' = [wBatches EXCEPT ![w] = @ + 1]
  /\ UNCHANGED << source, dest, job, boq, xl, up, val, fin, poolLimit, poolSize,
                  permits, pending, wConn, wApplying >>

\* processBatch: a destination connection is taken from the pool.
WorkerAcquires(w) ==
  /\ wBatches[w] > wConn[w]
  /\ CanAcquire(permits)
  /\ permits' = permits - 1
  /\ wConn' = [wConn EXCEPT ![w] = @ + 1]
  /\ UNCHANGED << source, dest, job, boq, xl, up, val, fin, poolLimit, poolSize,
                  pending, wJob, wBatches, wApplying >>

\* processBatch: the batch is applied over the connection.
WorkerApplies(w) ==
  /\ wConn[w] > wApplying[w]
  /\ wApplying' = [wApplying EXCEPT ![w] = @ + 1]
  /\ UNCHANGED << source, dest, job, boq, xl, up, val, fin, poolLimit, poolSize,
                  permits, pending, wJob, wBatches, wConn >>

\* processBatch returns: the connection goes back to the pool.
WorkerFinishesBatch(w) ==
  /\ wApplying[w] > 0
  /\ wApplying' = [wApplying EXCEPT ![w] = @ - 1]
  /\ wConn' = [wConn EXCEPT ![w] = @ - 1]
  /\ wBatches' = [wBatches EXCEPT ![w] = @ - 1]
  /\ permits' = permits + 1
  /\ UNCHANGED << source, dest, job, boq, xl, up, val, fin, poolLimit, poolSize,
                  pending, wJob >>

NextPool ==
  \E w \in Workers :
    \/ WorkerTakesJob(w)
    \/ WorkerCallsProcessBatch(w)
    \/ WorkerAcquires(w)
    \/ WorkerApplies(w)
    \/ WorkerFinishesBatch(w)

SpecPool == InitPool /\ [][NextPool]_vars

\* ------------------------------------ DataValidationEngine.validateMigrationData
MaxValRecords == 3

\* Record keys (generateRecordKey) and the one defect a record may have:
\* it breaks the schema, a business rule, a cross reference, or it is
\* caught by one of the quality checks other than the duplicate check.
RecordKeys == {"A-100", "B-200"}
Defects == {"none", "schema", "rule", "reference", "quality"}

ValRecords == [key : RecordKeys, defect : Defects]

ValData == UNION { [1..n -> ValRecords] : n \in 1..MaxValRecords }

Issue(k, layer, check, severity) ==
  [ record |-> k, layer |-> layer, check |-> check, severity |-> severity ]

\* The issues a check raises: one for every record with the given defect.
RECURSIVE DefectIssues(_, _, _, _, _, _)
DefectIssues(records, k, defect, layer, check, severity) ==
  IF k > Len(records) THEN <<>>
  ELSE (IF records[k].defect = defect
        THEN << Issue(k, layer, check, severity) >> ELSE <<>>)
       \o DefectIssues(records, k + 1, defect, layer, check, severity)

\* validateSchema / validateBusinessRules / validateCrossReferences: errors.
SchemaErrors(records) ==
  DefectIssues(records, 1, "schema", "schema", "schema", "error")
BusinessErrors(records) ==
  DefectIssues(records, 1, "rule", "business", "rule", "error")
CrossRefErrors(records) ==
  DefectIssues(records, 1, "reference", "crossref", "reference", "error")

\* A duplicate scan that remembers the last key only.
RECURSIVE DupScanAdjacent(_, _, _, _)
DupScanAdjacent(records, k, seen, duplicates) ==
  IF k > Len(records) THEN duplicates
  ELSE LET key == records[k].key
       IN DupScanAdjacent(records, k + 1, {key},
             IF key \in seen
             THEN Append(duplicates, [record |-> k, duplicateKey |-> key])
             ELSE duplicates)

\* checkForDuplicates, the loop: for (const record of data.records) {
\*   if (seen.has(key)) duplicates.push(...); seen.add(key) }
RECURSIVE DupScan(_, _, _, _)
DupScan(records, k, seen, duplicates) ==
  IF k > Len(records) THEN duplicates
  ELSE LET key == records[k].key
       IN DupScan(records, k + 1, seen \cup {key},
             IF key \in seen
             THEN Append(duplicates, [record |-> k, duplicateKey |-> key])
             ELSE duplicates)

\* checkForDuplicates: one warning per duplicate, and the statistics.
CheckForDuplicates(records) ==
  LET duplicates == DupScan(records, 1, {}, <<>>)
  IN [ checkType |-> "duplicates",
       warnings |-> [d \in 1..Len(duplicates) |->
          Issue(duplicates[d].record, "quality", "duplicates", "warning")],
       statistics |-> [ totalRecords |-> Len(records),
                        duplicateCount |-> Len(duplicates) ] ]

\* The other quality checks (completeness, consistency, value ranges,
\* referential integrity): findings on the records they catch.
OtherQualityFindings(records) ==
  DefectIssues(records, 1, "quality", "quality", "ranges", "warning")

\* performQualityChecks: the warnings of all checks, and the statistics.
PerformQuality(records) ==
  [ warnings |-> CheckForDuplicates(records).warnings
                   \o OtherQualityFindings(records),
    statistics |-> CheckForDuplicates(records).statistics ]

\* A verdict that lets warnings count as well.
IsValidOfNoFindings(errs, warns) == Len(errs) = 0 /\ Len(warns) = 0

\* results.isValid = results.errors.length === 0
IsValidOf(errs, warns) == Len(errs) = 0

InitValidate ==
  /\ source = << RawItem(1, "ok") >>
  /\ cfgBatch = 0
  /\ xlHeaders = <<>>
  /\ xlRows = 0
  /\ xlTemplate = "valid"
  /\ upPolicy = "overwrite"
  /\ InitJob
  /\ IdlePool
  /\ IdleFin
  /\ vData \in ValData
  /\ vPc = "start"
  /\ vErrors = <<>>
  /\ vWarnings = <<>>
  /\ vStats = [totalRecords |-> 0, duplicateCount |-> 0]
  /\ vIsValid = TRUE

\* const schemaResult = await this.validateSchema(data, schema);
ValidateSchema ==
  /\ vPc = "start"
  /\ vErrors' = vErrors \o SchemaErrors(vData)
  /\ vPc' = "schema"
  /\ UNCHANGED << source, dest, job, boq, xl, up, pool, fin, vData, vWarnings,
                  vStats, vIsValid >>

\* const businessResult = await this.validateBusinessRules(data, ...);
ValidateBusinessRules ==
  /\ vPc = "schema"
  /\ vErrors' = vErrors \o BusinessErrors(vData)
  /\ vPc' = "business"
  /\ UNCHANGED << source, dest, job, boq, xl, up, pool, fin, vData, vWarnings,
                  vStats, vIsValid >>

\* const qualityResult = await this.performQualityChecks(data);
\* results.warnings.push(...qualityResult.warnings); results.statistics = ...
PerformQualityChecks ==
  /\ vPc = "business"
  /\ vWarnings' = vWarnings \o PerformQuality(vData).warnings
  /\ vStats' = PerformQuality(vData).statistics
  /\ vPc' = "quality"
  /\ UNCHANGED << source, dest, job, boq, xl, up, pool, fin, vData, vErrors,
                  vIsValid >>

\* const crossRefResult = await this.validateCrossReferences(data);
ValidateCrossReferences ==
  /\ vPc = "quality"
  /\ vErrors' = vErrors \o CrossRefErrors(vData)
  /\ vPc' = "crossref"
  /\ UNCHANGED << source, dest, job, boq, xl, up, pool, fin, vData, vWarnings,
                  vStats, vIsValid >>

\* results.isValid = results.errors.length === 0; return results;
ReturnResults ==
  /\ vPc = "crossref"
  /\ vIsValid' = IsValidOf(vErrors, vWarnings)
  /\ vPc' = "done"
  /\ UNCHANGED << source, dest, job, boq, xl, up, pool, fin, vData, vErrors,
                  vWarnings, vStats >>

NextValidate ==
  \/ ValidateSchema
  \/ ValidateBusinessRules
  \/ PerformQualityChecks
  \/ ValidateCrossReferences
  \/ ReturnResults

SpecValidate == InitValidate /\ [][NextValidate]_vars

\* --------------------------------------- financial calculation properties
\* 'rate calculations should be commutative and associative': the total of a
\* generated array and the total of a shuffled copy are computed with the
\* language's number type, a binary floating-point format that rounds every
\* result to a fixed count of significant bits, ties to the even neighbour.
\* The model keeps that rounding and scales the format down.
MaxResources == 3     \* longest generated array
MantissaBits == 3     \* significant bits of a number (53 in the source)

RECURSIVE Pow2(_)
Pow2(n) == IF n = 0 THEN 1 ELSE 2 * Pow2(n - 1)

\* The binary exponent at which x fits into MantissaBits bits.
RECURSIVE Exponent(_, _)
Exponent(x, e) ==
  IF x < Pow2(MantissaBits + e) THEN e ELSE Exponent(x, e + 1)

\* Unit in the last place of x.
Ulp(x) == Pow2(Exponent(x, 0))

\* IEEE 754 roundTiesToEven of an exact result onto the format.
RoundTiesToEven(x) ==
  LET u == Ulp(x)
      q == x \div u
      r == x % u
  IN  IF 2 * r > u \/ (2 * r = u /\ q % 2 = 1) THEN (q + 1) * u ELSE q * u

\* sum + x  and  r.quantity * r.rate
FloatAdd(a, b) == RoundTiesToEven(a + b)
FloatMul(a, b) == RoundTiesToEven(a * b)

\* fc.record({ quantity: fc.float(...), rate: fc.float(...) })
Quantities == 1..3
Rates == {1, 4}
Resource == [quantity : Quantities, rate : Rates]

\* fc.array(..., { minLength: 1, ... })
ResourceArrays == UNION { [1..n -> Resource] : n \in 1..MaxResources }

\* Array.prototype.reduce: a left fold from the initial value.
RECURSIVE ReduceFrom(_, _)
ReduceFrom(sum, rs) ==
  IF rs = <<>> THEN sum
  ELSE ReduceFrom(FloatAdd(sum, FloatMul(Head(rs).quantity, Head(rs).rate)),
                  Tail(rs))

\* reduce without its initial value: the first record seeds the sum.
ReduceTotalNoInitial(rs) == ReduceFrom(Head(rs).quantity, Tail(rs))

\* resources.reduce((sum, r) => sum + (r.quantity * r.rate), 0)
ReduceTotal(rs) == ReduceFrom(0, rs)

\* [...resources].sort(() => Math.random() - 0.5): some rearrangement.
Rearrangements(n) ==
  { p \in [1..n -> 1..n] : \A i, j \in 1..n : p[i] = p[j] => i = j }

InitFinancial ==
  /\ source = << RawItem(1, "ok") >>
  /\ cfgBatch = 0
  /\ xlHeaders = <<>>
  /\ xlRows = 0
  /\ xlTemplate = "valid"
  /\ upPolicy = "overwrite"
  /\ InitJob
  /\ IdlePool
  /\ IdleVal
  /\ resources \in ResourceArrays
  /\ shuffled = <<>>
  /\ total1 = 0
  /\ total2 = 0
  /\ finPc = "total1"

\* const total1 = resources.reduce(...)
ReduceResources ==
  /\ finPc = "total1"
  /\ total1' = ReduceTotal(resources)
  /\ finPc' = "shuffle"
  /\ UNCHANGED << source, dest, job, boq, xl, up, pool, val, resources,
                  shuffled, total2 >>

\* const shuffled = [...resources].sort(...)
Shuffle ==
  /\ finPc = "shuffle"
  /\ \E p \in Rearrangements(Len(resources)) :
        shuffled' = [i \in 1..Len(resources) |-> resources[p[i]]]
  /\ finPc' = "total2"
  /\ UNCHANGED << source, dest, job, boq, xl, up, pool, val, resources,
                  total1, total2 >>

\* const total2 = shuffled.reduce(...)
ReduceShuffled ==
  /\ finPc = "total2"
  /\ total2' = ReduceTotal(shuffled)
  /\ finPc' = "done"
  /\ UNCHANGED << source, dest, job, boq, xl, up, pool, val, resources,
                  shuffled, total1 >>

NextFinancial ==
  \/ ReduceResources
  \/ Shuffle
  \/ ReduceShuffled

SpecFinancial == InitFinancial /\ [][NextFinancial]_vars

\* ------------------------------------------------------------------ claims
\* The record r (by source row and content) is already stored in d.
Stored(d, r) ==
  \E j \in 1..Len(d) :
     d[j].sequenceNumber = r.sequenceNumber /\ d[j].fp = Fingerprint(r)

\* C1: importing again, for the same job, records that are already stored
\* with the same content is a no-op success: the destination (its count and
\* every stored row) is unchanged and every record is counted as a success,
\* however many times the job is run again.
C1_ReimportIsNoOp ==
  [][ /\ ( /\ pc = "commit" /\ pc' = "progress"
           /\ \A k \in 1..Len(txn) : Stored(dest, txn[k]) )
         => (dest' = dest /\ successCount' = Len(txn))
      /\ ( /\ pc = "isolate" /\ pc' \in {"isolate", "progress"}
           /\ ~Head(todo).conflict /\ Stored(dest, Head(todo)) )
         => (dest' = dest /\ successCount' = successCount + 1)
    ]_vars

\* A batch of two records committed a third time without changing the store.
C1_Witness ==
  /\ pc = "progress" /\ attemptsMade = 2
  /\ successCount = 2 /\ dest = txnBase /\ Len(dest) >= 2

\* A source row the job can import: it passes validation and violates no
\* destination constraint.
Importable(item) == ValidRecord(TransformItem(item)) /\ ~item.conflict

\* Number of destination rows that stem from source row i.
Copies(d, i) == Cardinality({j \in 1..Len(d) : d[j].sequenceNumber = i})

\* Number of importable rows among the first i rows of the source.
Rank(src, i) == Cardinality({j \in 1..i : Importable(src[j])})

\* The job is over: the queue will not run it again.
JobOver == pc = "done"

\* C2: a job whose status is 'completed' has a reconciliation report with
\* countVariance = 0 and abs(financialVariance) <= tolerance.
C2_CompletedImpliesReconciled ==
  jobStatus = "completed" => ReportPasses(ReconcileReport(source, dest))

\* C3: a job whose reconciliation report fails the tolerance check ends
\* 'failed'; and a job ends 'failed' only after an error was thrown or with
\* a failing report.
C3_ReconciliationDecidesVerdict ==
  /\ (JobOver /\ report # NoReport /\ ~ReportPasses(report))
        => jobStatus = "failed"
  /\ (JobOver /\ report # NoReport /\ jobStatus = "failed")
        => (lastError # "none" \/ ~ReportPasses(report))

\* C4: whatever the batch size and wherever the worker crashed (in
\* particular after a batch was committed and before its progress was
\* persisted), a job that completes has stored every importable source row
\* exactly once, and nothing else.
C4_ExactlyOnce ==
  jobStatus = "completed" =>
    /\ \A i \in 1..Len(source) :
          Copies(dest, i) = IF Importable(source[i]) THEN 1 ELSE 0
    /\ Len(dest) = Rank(source, Len(source))

\* A job of three one-record batches that crashed between the commit of a
\* batch and the persistence of its progress, and then completed.
C4_Witness ==
  /\ jobStatus = "completed" /\ crashedAt = "progress"
  /\ cfgBatch = 1 /\ Len(dest) = 3

C7_BatchAtomic ==
  /\ [](pc \in {"upsert", "commit", "catch"} => dest = txnBase)
  /\ [][ (pc = "commit" /\ pc' = "progress")
           => \A k \in 1..Len(txn) : Stored(dest', txn[k]) ]_vars

\* A two-record batch was submitted in full, its commit failed, and the
\* store holds none of its records.
C7_Witness ==
  /\ pc = "catch" /\ lastError = "transient"
  /\ Len(batch) = 2 /\ todo = <<>> /\ dest = <<>>

\* C8: the job is given up only when the N retries (N = 3) of a batch that
\* fails with a transient error are exhausted, that is after the first try
\* and N retries have all failed; a retry that succeeds leaves the job
\* complete with every importable record stored exactly once.
C8_AbortOnlyAfterNRetries ==
  /\ (JobOver /\ jobStatus = "failed") => attemptsMade >= 1 + QueueAttempts
  /\ (JobOver /\ jobStatus = "completed" /\ attemptsMade >= 1) =>
        \A i \in 1..Len(source) :
           Importable(source[i]) => Copies(dest, i) = 1

\* C9: a permanent destination error never aborts the job (only a transient
\* error reaches the catch block), and when processBatch returns, every
\* record of the window except the rejected ones is stored.
C9_PermanentErrorIsolated ==
  /\ pc = "catch" => lastError = "transient"
  /\ pc = "progress" =>
        \A k \in 1..Len(batch) :
           Importable(batch[k]) => Stored(dest, TransformItem(batch[k]))
  /\ jobStatus = "completed" =>
        \A i \in 1..Len(source) :
           Importable(source[i]) => Copies(dest, i) >= 1

\* A job over <<ok, conflict, ok>> in batches of two completed with both
\* good records stored, the one sharing a batch with the offender included.
C9_Witness ==
  /\ jobStatus = "completed" /\ cfgBatch = 2 /\ Len(source) = 3
  /\ source[2].conflict /\ Importable(source[1]) /\ Importable(source[3])
  /\ Copies(dest, 1) = 1 /\ Copies(dest, 3) = 1 /\ Len(dest) = 2

\* C10: a record-level error never aborts a migration: a run ends in error
\* only on a fatal configuration error or a transient destination error, and
\* a run that returned without a destination failure has stored every
\* importable record of the source.
C10_RecordErrorsNeverAbort ==
  boqPc = "returned" =>
    /\ boqResult.status = "error" =>
          boqResult.error \in {"FatalConfigurationError",
                               "TransientDestinationError"}
    /\ (boqResult.status = "success"
          \/ boqResult.error = "BOQ validation failed") =>
          \A i \in 1..Len(source) :
             Importable(source[i]) => Copies(dest, i) = 1

\* ------------------------------------------------------------------ phases
\* MigrationMonitor.createProgressTracker: the phases of a migration, in
\* order; a migration that went through all of them is completed.
Phases == << "discovery", "extraction", "transformation", "validation",
             "import", "verification" >>

Lifecycle == Phases \o << "completed" >>

PhasePos(phase) == CHOOSE k \in 1..Len(Lifecycle) : Lifecycle[k] = phase

\* The phase a call of migrateBOQData is in: before its first step it is in
\* the initial phase; each await of the method is the work of one phase; the
\* value it returns is its terminal state.
BoqPhase ==
  CASE boqPc = "idle" -> "discovery"
    [] boqPc = "extracted" -> "extraction"
    [] boqPc = "transformed" -> "transformation"
    [] boqPc = "validated" -> "validation"
    [] boqPc = "importing" -> "import"
    [] boqPc = "returned" ->
         IF boqResult.status = "success" THEN "completed" ELSE "failed"

\* C11: the phase of a migration changes only to the next phase of
\* Discovery -> Extraction -> Transformation -> Validation -> Import ->
\* Verification -> Completed, one step at a time, or to Failed.
\* migrateBOQData returns 'success' straight from the import: the
\* verification phase is skipped.
C11_PhasesInOrder ==
  [][ (boqPc # "returned" /\ boqPc' # boqPc)
        => \/ BoqPhase' = "failed"
           \/ PhasePos(BoqPhase') = PhasePos(BoqPhase) + 1 ]_vars

\* C12: once a job has a terminal status, no later operation changes its
\* status or its counters; a failed job is never set back to processing.
\* The queue runs a failed job again (attempts: 3) and processMigrationJob
\* overwrites 'failed' with 'processing'.
C12_TerminalIsFinal ==
  [][ (jobStatus = "completed" \/ jobStatus = "failed")
        => /\ jobStatus' = jobStatus
           /\ progress' = progress
    ]_vars

C14_CountersMonotone ==
  [][ (pc = "progress" /\ offset > 0)
        => /\ progress'.processed >= progress.processed
           /\ progress'.errors >= progress.errors
    ]_vars

\* C15: at no time, across retries, runs of the job by the queue and the run
\* after a crash, do the effects of a batch appear in the destination more
\* than once: every source row has at most one destination row, and no row
\* was written again as a new revision.
C15_NoBatchAppliedTwice ==
  \A j \in 1..Len(dest) :
     /\ dest[j].rev = 1
     /\ Copies(dest, dest[j].sequenceNumber) = 1

\* A two-record batch that was committed, lost to a crash before its progress
\* was persisted, committed again by the next run and once more by a retry.
C15_Witness ==
  /\ crashes = 1 /\ crashedAt = "progress" /\ attemptsMade >= 1
  /\ pc = "progress" /\ successCount = 2 /\ Len(dest) = 2 /\ dest = txnBase

\* A call of migrateBOQData that returned without a destination failure.
BoqSettled ==
  /\ boqPc = "returned"
  /\ (boqResult.status = "success" \/ boqResult.error = "BOQ validation failed")

\* C16: a record with an error-severity validation issue is never imported,
\* and an invalid record does not keep the valid records of the same data
\* set out of the destination.
\* migrateBOQData imports nothing at all once one item has an error.
C16_InvalidExcludedValidImported ==
  BoqSettled =>
    \A i \in 1..Len(boqItems) :
       /\ ItemErrors(boqItems[i], i - 1) # <<>> => Copies(dest, i) = 0
       /\ (ItemErrors(boqItems[i], i - 1) = <<>> /\ ~boqItems[i].conflict)
             => Copies(dest, i) = 1

\* Number of source rows whose quantity is not positive.
NonPositive(src) == Cardinality({i \in 1..Len(src) : src[i].quantity <= 0})

\* C17: for a source of n records of which k have a non-positive quantity
\* (all else valid) the migration imports n - k records and rejects k, each
\* with exactly one validation error, on that record's quantity field.
\* migrateBOQData reports the k errors but imports 0 records when k > 0.
C17_CountersAndErrors ==
  (BoqSettled /\ \A i \in 1..Len(source) : ~source[i].conflict) =>
    /\ Len(dest) = Len(source) - NonPositive(source)
    /\ Len(boqErrors) = NonPositive(source)
    /\ \A i \in 1..Len(source) :
          source[i].quantity <= 0 =>
            Cardinality({e \in 1..Len(boqErrors) :
               boqErrors[e].field = <<"items", i - 1, "quantity">>}) = 1

\* C18: after a migration in which every source record was imported, the
\* reconciliation report, whose destination figures are computed from the
\* stored rows, shows a destination count equal to the source count and a
\* destination total (sum of quantity x rate, in cents) equal to the source
\* total within the tolerance.
C18_TotalsReconcile ==
  ( /\ report # NoReport
    /\ jobStatus = "completed"
    /\ \A i \in 1..Len(source) : Importable(source[i]) )
  => /\ report.targetRecordCount = Len(dest)
     /\ report.targetTotal = FinancialTotal(dest)
     /\ report.targetRecordCount = report.sourceRecordCount
     /\ Abs(report.sourceTotal - report.targetTotal) <= Tolerance

\* Three records worth 125 + 300 + 525 cents, imported through a crash and a
\* retry, reconciled.
C18_Witness ==
  /\ report # NoReport /\ jobStatus = "completed"
  /\ Len(source) = 3 /\ \A i \in 1..3 : Importable(source[i])
  /\ crashes = 1 /\ attemptsMade >= 1
  /\ report.sourceTotal = 950 /\ report.targetTotal = 950

\* The two headers of the mapping scenario.
QtyHeader == << "Q", "T", "Y", " " >>
QualityHeader == << "Q", "u", "a", "l", "i", "t", "y" >>

C21_OneCanonicalPerRaw ==
  boqPc \in {"transformed", "validated", "importing", "returned"} =>
    /\ Len(boqItems) = Len(source)
    /\ \A k \in 1..Len(boqItems) :
          Cardinality({j \in 1..Len(source) :
             source[j].item_id = boqItems[k].externalId}) = 1
    /\ \A k, l \in 1..Len(boqItems) :
          boqItems[k].externalId = boqItems[l].externalId => k = l

\* A BOQ of three raw items was transformed into three canonical records.
C21_Witness ==
  /\ boqPc = "transformed" /\ Len(source) = 3 /\ Len(boqItems) = 3
  /\ {boqItems[k].externalId : k \in 1..3} = {1, 2, 3}

\* C22: a record whose key is already stored with a different content is
\* never stored as a second record: under the overwrite policy the stored
\* row is replaced by the next revision, under the reject policy the store
\* is unchanged and the record is reported as rejected; the record count is
\* unchanged either way.
C22_ChangedRecordIsNotDuplicated ==
  [][ (upLast'.outcome # "none" /\ ChangedContent(upDest, upLast'.record))
        => LET r == upLast'.record
               i == KeyIndex(upDest, r.externalId)
           IN /\ Len(upDest') = Len(upDest)
              /\ upPolicy = "overwrite" =>
                    /\ upDest'[i].fp = Fingerprint(r)
                    /\ upDest'[i].rev = upDest[i].rev + 1
                    /\ \A j \in 1..Len(upDest) : j # i => upDest'[j] = upDest[j]
              /\ upPolicy = "reject" =>
                    /\ upDest' = upDest
                    /\ upLast'.outcome = "rejected"
    ]_vars

\* Two keys are stored and one of them was overwritten by a changed record.
C22_Witness ==
  /\ upPolicy = "overwrite" /\ upLast.outcome = "updated"
  /\ Len(upDest) = 2
  /\ upDest[KeyIndex(upDest, upLast.record.externalId)].rev = 2

AllIssues == vErrors \o vWarnings

\* C25: validation runs the schema checks, then the business rules, then
\* the quality checks; a record that fails the schema is not submitted to
\* the later layers, so its result holds schema issues only, and it is
\* still counted in the statistics.
\* validateMigrationData hands the whole data to every layer: a record that
\* fails the schema and repeats a key also gets the duplicate warning.
C25_SchemaFailureShortCircuits ==
  /\ (\E e \in 1..Len(AllIssues) : AllIssues[e].layer = "business")
        => vPc \notin {"start", "schema"}
  /\ (\E e \in 1..Len(AllIssues) : AllIssues[e].layer = "quality")
        => vPc \notin {"start", "schema", "business"}
  /\ vPc = "done" =>
        /\ vStats.totalRecords = Len(vData)
        /\ \A i \in 1..Len(vData) :
              vData[i].defect = "schema" =>
                \A e \in 1..Len(AllIssues) :
                   AllIssues[e].record = i => AllIssues[e].layer = "schema"

\* Record i repeats the key of an earlier record.
KeySeenBefore(i) == \E j \in 1..(i - 1) : vData[j].key = vData[i].key

\* C29: checkForDuplicates flags every record whose key was seen earlier in
\* the batch and never the first record of a key: each flagged record gets
\* exactly one warning, and duplicateCount is the number of records minus
\* the number of distinct keys.
C29_DuplicatesFlaggedOnce ==
  vPc \in {"quality", "crossref", "done"} =>
    /\ \A i \in 1..Len(vData) :
          Cardinality({w \in 1..Len(vWarnings) :
             /\ vWarnings[w].check = "duplicates"
             /\ vWarnings[w].record = i
             /\ vWarnings[w].severity = "warning"})
            = IF KeySeenBefore(i) THEN 1 ELSE 0
    /\ \A w \in 1..Len(vWarnings) :
          vWarnings[w].check = "duplicates" =>
            vWarnings[w].severity = "warning"
    /\ vStats.duplicateCount
         = Len(vData) - Cardinality({vData[i].key : i \in 1..Len(vData)})

\* Three records with keys A, B, A: the third one alone is flagged.
C29_Witness ==
  /\ vPc = "quality" /\ Len(vData) = 3
  /\ vData[1].key = vData[3].key /\ vData[2].key # vData[1].key
  /\ vStats.duplicateCount = 1
  /\ \E w \in 1..Len(vWarnings) :
        vWarnings[w].check = "duplicates" /\ vWarnings[w].record = 3

\* C30: isValid is true exactly when the schema, business-rule and
\* cross-reference checks produced no error; what the quality checks find
\* is added as warnings and statistics only and never makes isValid false.
C30_OnlyErrorsDecideValidity ==
  vPc = "done" =>
    /\ vIsValid <=> \A i \in 1..Len(vData) :
                      vData[i].defect \notin {"schema", "rule", "reference"}
    /\ \A e \in 1..Len(vErrors) :
          vErrors[e].layer \in {"schema", "business", "crossref"}
    /\ \A i \in 1..Len(vData) :
          (vData[i].defect = "quality" \/ KeySeenBefore(i)) =>
            \E w \in 1..Len(vWarnings) :
               /\ vWarnings[w].record = i
               /\ vWarnings[w].layer = "quality"
               /\ vWarnings[w].severity = "warning"

\* A data set with a duplicate and a value out of range, and no error: it
\* is valid, with two warnings.
C30_Witness ==
  /\ vPc = "done" /\ vIsValid /\ Len(vErrors) = 0 /\ Len(vWarnings) = 2
  /\ \E w \in 1..2 : vWarnings[w].check = "duplicates"
  /\ \E w \in 1..2 : vWarnings[w].check = "ranges"

\* The exact total of the records, without rounding.
RECURSIVE ExactTotal(_)
ExactTotal(rs) ==
  IF rs = <<>> THEN 0
  ELSE Head(rs).quantity * Head(rs).rate + ExactTotal(Tail(rs))

\* C26 (as stated): the total of the records is the same for every order in
\* which they are summed.
C26_TotalIndependentOfOrder ==
  finPc = "done" => total1 = total2

\* C26 (amended): the totals of two orders of the same records differ by at
\* most one unit in the last place of the larger total per addition, and
\* they are equal, and exact, whenever the exact total needs no rounding.
C26_TotalsAgreeUpToRounding ==
  finPc = "done" =>
    /\ Abs(total1 - total2)
         <= (Len(resources) - 1) * Ulp(Max(total1, total2))
    /\ ExactTotal(resources) < Pow2(MantissaBits) =>
         total1 = ExactTotal(resources) /\ total2 = total1

\* Both totals are computed, the shuffle changed the order, and an addition
\* rounded differently in the two orders.
C26_Witness ==
  /\ finPc = "done"
  /\ shuffled # resources
  /\ total1 # total2

\* The records the running execution has read from the source so far.
InBatch == {"process", "upsert", "commit", "isolate", "progress"}

RecordsRead ==
  IF pc \in InBatch
  THEN Min(offset + BatchSize(cfgBatch), Len(source))
  ELSE Min(offset, Len(source))

\* The offset is a multiple of the batch size and no window lies behind an
\* empty one; the loop is left, and 'completed' set, only with an empty
\* window in hand and every record behind the offset; the count of
\* processed records stays within the records read.
C27_Windows ==
  /\ offset % BatchSize(cfgBatch) = 0
  /\ offset = 0 \/ offset - BatchSize(cfgBatch) < Len(source)
  /\ (pc = "finish" \/ jobStatus = "completed") =>
        batch = <<>> /\ offset >= Len(source)
  /\ processedCount <= RecordsRead

\* A window is read at the current offset; the loop comes back to the read
\* only from the start of the execution, at offset 0, or from the end of
\* the body, one batch size further; what is reported as processed is
\* within the records read.
C27_Steps ==
  /\ batch' # batch =>
        batch' = Window(source, offset, BatchSize(cfgBatch)) \/ pc = "waiting"
  /\ (pc' = "fetch" /\ pc # "fetch") =>
        \/ pc = "waiting" /\ offset' = 0
        \/ pc = "progress" /\ offset' = offset + BatchSize(cfgBatch)
  /\ pc' # "fetch" => (offset' = offset \/ pc = "waiting")
  /\ progress' # progress =>
        progress'.processed <= Min(offset', Len(source))
  /\ (jobStatus' = "completed" /\ jobStatus # "completed") => pc = "finish"

\* C27: one execution of processMigrationJob over a finite, stable source
\* terminates; it reads the windows at offsets 0, B, 2B, ... each once and
\* stops at the first empty one, the windows read cover the source without
\* overlap or gap, 'completed' is set only after an empty window was read,
\* and the processed count never exceeds the number of records read.
C27_ExecutionReadsEachWindowOnce ==
  /\ []C27_Windows
  /\ [][C27_Steps]_vars
  /\ (pc = "fetch") ~> (pc = "finish" \/ pc = "catch")

\* Three records in windows of two: the windows at 0 and 2 were read and
\* processed, the window at 4 came back empty.
C27_Witness ==
  /\ pc = "finish"
  /\ Len(source) = 3 /\ cfgBatch = 2
  /\ offset = 4
  /\ processedCount >= 2

\* The statement of migrateBOQData that follows each position.
BoqNext(p) ==
  CASE p = "idle"        -> {"extracted"}
    [] p = "extracted"   -> {"transformed"}
    [] p = "transformed" -> {"validated"}
    [] p = "validated"   -> {"importing", "returned"}
    [] p = "importing"   -> {"returned"}
    [] p = "returned"    -> {"extracted"}

\* C28: migrateBOQData extracts, transforms, validates and imports strictly
\* in that order, calls importBOQ only when the validation returned isValid
\* = true and never lets an exception out: every call returns a result of
\* status 'success', after the import completed, or 'error', after a step
\* failed; when the validation fails the destination is left as it was.
C28_StepsInOrderAndErrorsReturned ==
  [][ /\ boqPc' # boqPc => boqPc' \in BoqNext(boqPc)
      /\ boqPc' = "importing" => (boqPc = "validated" /\ boqValid)
      /\ dest' # dest => (boqPc = "importing" /\ boqValid)
      /\ (boqPc' = "returned" /\ boqPc # "returned") =>
            /\ boqResult'.status \in {"success", "error"}
            /\ boqResult'.status = "success" =>
                  (boqPc = "importing" /\ dest' = ImportBOQ(dest, boqItems))
            /\ boqResult'.status = "error" => dest' = dest
            /\ ~boqValid => boqResult'.status = "error"
    ]_vars

\* A BOQ with one valid and one invalid item was rejected by the validation:
\* the call has returned status 'error' and the destination is empty.
C28_Witness ==
  /\ boqPc = "returned"
  /\ boqResult = [status |-> "error", error |-> "BOQ validation failed"]
  /\ Len(source) = 2
  /\ ValidRecord(boqItems[1]) /\ ~ValidRecord(boqItems[2])
  /\ dest = <<>>

====
